---- MODULE Spec2Model ----
(***************************************************************************)
(* Token ring of Project2-Chandi-Lamport/program.c: MAX_PROCESSES          *)
(* processes, each running main, a server thread (inbound TCP connection   *)
(* from the predecessor) and a client thread (outbound TCP connection to   *)
(* the successor), sharing one ProcessInfo record.                         *)
(*                                                                         *)
(* Spec      the closed ring, from the moment every connection is made.    *)
(* SpecOpen  one process from main on, its two TCP peers being arbitrary.  *)
(***************************************************************************)
EXTENDS Integers, Sequences, FiniteSets, TLC

\* ------------------------------------------------------------------ sizes
MAX_PROCESSES == 5      \* #define MAX_PROCESSES
MAX_RETRIES == 10       \* #define MAX_RETRIES
Initiator == 1          \* the ring's process started with -x
Pu == 2                 \* the process run in the open harness
MaxHops == 6            \* cap on token receipts, all processes together
MaxSeeds == 2           \* cap on initial token sends, all processes together
MaxChan == 2            \* cap on payloads queued on one TCP connection
MsgBufLen == 4          \* length of the server's receive buffer msg[], in chunks
MaxEnv == 3             \* payloads the foreign peer writes in the open harness

Procs == 1..MAX_PROCESSES

\* ------------------------------------------------------------------ wire data
\* A payload is a sequence of chunks.  The token message built by sprintf is a
\* header chunk (proc_id, sender, receiver) followed by the chunk holding the
\* substring "token" that strstr looks for.
Chunk(k, i, s, r) == [k |-> k, proc_id |-> i, sender |-> s, receiver |-> r]
Tag == Chunk("tag", 0, 0, 0)
Other == Chunk("x", 0, 0, 0)
Indet == Chunk("?", 0, 0, 0)         \* bytes never written: indeterminate
TokenMsg(i, s, r) == <<Chunk("hdr", i, s, r), Tag>>
Garbage == [i \in 1..MsgBufLen |-> Indet]
\* a Marker{snapshotId, initiatorId} on the wire: bytes without the token tag
MarkerMsg(id, initiator) == <<Chunk("hdr", id, initiator, 0), Chunk("marker", id, initiator, 0)>>

VARIABLES
  mpc,              \* main: "main" (before pthread_create), "threads", "exited"
  starts_with_tok,  \* the -x option
  predecessor,      \* ProcessInfo.predecessor
  successor,        \* ProcessInfo.successor
  state,            \* ProcessInfo.state
  ready,            \* ProcessInfo.ready
  strbuf,           \* ProcessInfo.strbuf
  mutex,            \* ProcessInfo.mutex: "free", "server", "client"
  spc,              \* server thread position
  cpc,              \* client thread position
  msg,              \* server's receive buffer msg[]
  listening,        \* the server socket is bound and listening
  conn,             \* inbound connection of a process: "none", "open", "closed"
  inbox,            \* payloads queued on the inbound connection
  logged,           \* values printed by "proc_id: %d, state: %d"
  nput,             \* mailbox puts made by the server thread (history)
  nsent,            \* messages sent by the client's send loop (history)
  ninit,            \* initial token sends made by the client (history)
  sent,             \* payloads the client has passed to send(), in order (history)
  env,              \* payloads the foreign peer has written, in order (harness)
  cfg,              \* main reading hostsfile.txt: its locals and position
  p1                \* Project1-Docker: the program's arrays, buffer and position

ringvars == <<mpc, starts_with_tok, predecessor, successor, state, ready,
              strbuf, mutex, spc, cpc, msg, listening, conn, inbox, logged, nput,
              nsent, ninit, sent, env>>

vars == <<ringvars, cfg, p1>>

\* main is not being followed
NoMain == [pc |-> "none"]

\* Project1-Docker is not being followed
NoP1 == [pc |-> "none"]

\* ------------------------------------------------------------------ main
\* program.c:400
Predecessor(proc_id, num_processes) ==
  IF proc_id = 1 THEN num_processes ELSE proc_id - 1

\* the 0-indexed formula (index + 1) % N applied to the 1-indexed ids
SuccessorModN(proc_id, num_processes) == (proc_id + 1) % num_processes

\* program.c:401
Successor(proc_id, num_processes) ==
  IF proc_id = num_processes THEN 1 ELSE proc_id + 1

\* program.c:346
InitialState(x) == IF x THEN 1 ELSE 0

\* main with a well-formed hostsfile.txt of MAX_PROCESSES distinct hosts, run on
\* the host of line p: sets the fields and creates both threads.
Main(p) ==
  /\ mpc[p] = "main"
  /\ mpc' = [mpc EXCEPT ![p] = "threads"]
  /\ state' = [state EXCEPT ![p] = InitialState(starts_with_tok[p])]
  /\ predecessor' = [predecessor EXCEPT ![p] = Predecessor(p, MAX_PROCESSES)]
  /\ successor' = [successor EXCEPT ![p] = Successor(p, MAX_PROCESSES)]
  /\ ready' = [ready EXCEPT ![p] = 0]
  /\ UNCHANGED <<starts_with_tok, strbuf, mutex, spc, cpc, msg, listening, conn,
                 inbox, logged, nput, nsent, ninit, sent, env, cfg, p1>>

Running(p) == mpc[p] = "threads"

\* exit(1) from a thread: the process ends and the kernel closes its sockets
\* (the listener, and the outbound connection once it was made).
ExitEffect(p) ==
  /\ mpc' = [mpc EXCEPT ![p] = "exited"]
  /\ listening' = [listening EXCEPT ![p] = FALSE]
  /\ conn' = IF cpc[p] # "connect" /\ conn[successor[p]] = "open"
               THEN [conn EXCEPT ![successor[p]] = "closed"]
               ELSE conn

\* ------------------------------------------------------------------ server thread
RECURSIVE Concat(_)
Concat(ss) == IF ss = <<>> THEN <<>> ELSE Head(ss) \o Concat(Tail(ss))

RECURSIVE Sum(_, _)
Sum(f, S) ==
  IF S = {} THEN 0
  ELSE LET x == CHOOSE y \in S : TRUE IN f[x] + Sum(f, S \ {x})

\* initial token sends so far, all processes together
Seeds == Sum(ninit, Procs)

RECURSIVE SumLen(_, _)
SumLen(f, S) ==
  IF S = {} THEN 0
  ELSE LET x == CHOOSE y \in S : TRUE IN Len(f[x]) + SumLen(f, S \ {x})

\* token receipts so far, all processes together
Hops == SumLen(logged, Procs)

\* recv(new_fd, msg, MAX_HOSTNAME_LENGTH, 0): the bytes read overwrite the front
\* of msg; recv writes no terminator and the rest of msg keeps what it held.
Overwrite(buf, data) ==
  [i \in 1..Len(buf) |-> IF i <= Len(data) THEN data[i] ELSE buf[i]]

\* strstr(msg, "\"token\""): scans msg as a C string.  Found when the tag lies
\* in bytes that were written.  recv stores no NUL, so otherwise the scan runs
\* into bytes never written (or past the array): either result can come out.
StrstrOutcomes(buf) ==
  IF \E i \in 1..Len(buf) :
        /\ buf[i].k = "tag"
        /\ \A j \in 1..(i - 1) : buf[j].k # "?"
  THEN {TRUE}
  ELSE BOOLEAN

\* program.c:42-79  getaddrinfo, socket, setsockopt, bind, listen
ServerListen(p) ==
  /\ Running(p) /\ spc[p] = "listen"
  /\ listening' = [listening EXCEPT ![p] = TRUE]
  /\ spc' = [spc EXCEPT ![p] = "accept"]
  /\ UNCHANGED <<mpc, starts_with_tok, predecessor, successor, state, ready,
                 strbuf, mutex, cpc, msg, conn, inbox, logged, nput, nsent, ninit, sent, env, cfg, p1>>

\* program.c:92  accept blocks until a peer has connected
ServerAccept(p) ==
  /\ Running(p) /\ spc[p] = "accept"
  /\ conn[p] # "none"
  /\ spc' = [spc EXCEPT ![p] = "recv"]
  /\ UNCHANGED <<mpc, starts_with_tok, predecessor, successor, state, ready,
                 strbuf, mutex, cpc, msg, listening, conn, inbox, logged, nput,
                 nsent, ninit, sent, env, cfg, p1>>

\* program.c:103-125  recv and strstr; when the tag is found: state++, the log
\* line, the two sprintf and usleep(tok_delay).  TCP is a byte stream: one recv
\* returns the first k queued payloads together; it returns 0 bytes only when
\* nothing is queued and the peer has closed.
ServerRecv(p) ==
  /\ Running(p) /\ spc[p] = "recv"
  /\ Hops < MaxHops
  /\ \E k \in 0..Len(inbox[p]) :
       /\ (k = 0) <=> (inbox[p] = <<>>)
       /\ (k = 0) => (conn[p] = "closed")
       /\ LET data == Concat(SubSeq(inbox[p], 1, k))
              newmsg == Overwrite(msg[p], data)
          IN /\ Len(data) <= MsgBufLen
             /\ msg' = [msg EXCEPT ![p] = newmsg]
             /\ inbox' = [inbox EXCEPT ![p] = SubSeq(inbox[p], k + 1, Len(inbox[p]))]
             /\ \E found \in StrstrOutcomes(newmsg) :
                  IF found
                  THEN /\ state' = [state EXCEPT ![p] = state[p] + 1]
                       /\ logged' = [logged EXCEPT ![p] = Append(logged[p], state[p] + 1)]
                       /\ spc' = [spc EXCEPT ![p] = "lock"]
                  ELSE UNCHANGED <<state, logged, spc>>
  /\ UNCHANGED <<mpc, starts_with_tok, predecessor, successor, ready, strbuf,
                 mutex, cpc, listening, conn, nput, nsent, ninit, sent, env, cfg, p1>>

\* program.c:128  pthread_mutex_lock
ServerLock(p) ==
  /\ Running(p) /\ spc[p] = "lock"
  /\ mutex[p] = "free"
  /\ mutex' = [mutex EXCEPT ![p] = "server"]
  /\ spc' = [spc EXCEPT ![p] = "put"]
  /\ UNCHANGED <<mpc, starts_with_tok, predecessor, successor, state, ready,
                 strbuf, cpc, msg, listening, conn, inbox, logged, nput, nsent, ninit, sent, env, cfg, p1>>

\* program.c:129-132  strcpy(strbuf, new_msg); ready = 1; pthread_cond_signal
\* (wakes the client if it is blocked in pthread_cond_wait); unlock
ServerPut(p) ==
  /\ Running(p) /\ spc[p] = "put"
  /\ strbuf' = [strbuf EXCEPT ![p] = TokenMsg(p, p, successor[p])]
  /\ ready' = [ready EXCEPT ![p] = 1]
  /\ cpc' = IF cpc[p] = "wait" THEN [cpc EXCEPT ![p] = "woken"] ELSE cpc
  /\ nput' = [nput EXCEPT ![p] = nput[p] + 1]
  /\ mutex' = [mutex EXCEPT ![p] = "free"]
  /\ spc' = [spc EXCEPT ![p] = "recv"]
  /\ UNCHANGED <<mpc, starts_with_tok, predecessor, successor, state, msg,
                 listening, conn, inbox, logged, nsent, ninit, sent, env, cfg, p1>>

\* ------------------------------------------------------------------ client thread
\* send(sock_fd, ...): the payload is queued at the successor while it lives
Deliver(p, payload) ==
  /\ mpc[successor[p]] = "threads"
  /\ Len(inbox[successor[p]]) < MaxChan
  /\ inbox' = [inbox EXCEPT ![successor[p]] = Append(@, payload)]

\* program.c:174-198  sleep(1), getaddrinfo, socket, one connect attempt
ClientConnect(p) ==
  /\ Running(p) /\ cpc[p] = "connect"
  /\ listening[successor[p]]
  /\ conn' = [conn EXCEPT ![successor[p]] = "open"]
  /\ cpc' = [cpc EXCEPT ![p] = "check"]
  /\ UNCHANGED <<mpc, starts_with_tok, predecessor, successor, state, ready,
                 strbuf, mutex, spc, msg, listening, inbox, logged, nput, nsent, ninit, sent, env, cfg, p1>>

\* program.c:195-198  the successor is not listening: exit(1)
ClientConnectFail(p) ==
  /\ Running(p) /\ cpc[p] = "connect"
  /\ ~listening[successor[p]]
  /\ ExitEffect(p)
  /\ UNCHANGED <<starts_with_tok, predecessor, successor, state, ready, strbuf,
                 mutex, spc, cpc, msg, inbox, logged, nput, nsent, ninit, sent, env, cfg, p1>>

\* program.c:201  if (process->state == 1)
ClientCheck(p) ==
  /\ Running(p) /\ cpc[p] = "check"
  /\ cpc' = [cpc EXCEPT ![p] = IF state[p] = 1 THEN "send0" ELSE "lock"]
  /\ UNCHANGED <<mpc, starts_with_tok, predecessor, successor, state, ready,
                 strbuf, mutex, spc, msg, listening, conn, inbox, logged, nput,
                 nsent, ninit, sent, env, cfg, p1>>

\* program.c:202-212  the initial token send
ClientSendInitial(p) ==
  /\ Running(p) /\ cpc[p] = "send0"
  /\ Seeds < MaxSeeds
  /\ Deliver(p, TokenMsg(p, p, successor[p]))
  /\ ninit' = [ninit EXCEPT ![p] = ninit[p] + 1]
  /\ sent' = [sent EXCEPT ![p] = Append(@, TokenMsg(p, p, successor[p]))]
  /\ cpc' = [cpc EXCEPT ![p] = "lock"]
  /\ UNCHANGED <<mpc, starts_with_tok, predecessor, successor, state, ready,
                 strbuf, mutex, spc, msg, listening, conn, logged, nput, nsent, env, cfg, p1>>

\* program.c:217  pthread_mutex_lock
ClientLock(p) ==
  /\ Running(p) /\ cpc[p] = "lock"
  /\ mutex[p] = "free"
  /\ mutex' = [mutex EXCEPT ![p] = "client"]
  /\ cpc' = [cpc EXCEPT ![p] = "test"]
  /\ UNCHANGED <<mpc, starts_with_tok, predecessor, successor, state, ready,
                 strbuf, spc, msg, listening, conn, inbox, logged, nput, nsent, ninit, sent, env, cfg, p1>>

\* program.c:218-219  while (!ready) pthread_cond_wait: releases the mutex, blocks
ClientWait(p) ==
  /\ Running(p) /\ cpc[p] = "test"
  /\ ready[p] = 0
  /\ mutex' = [mutex EXCEPT ![p] = "free"]
  /\ cpc' = [cpc EXCEPT ![p] = "wait"]
  /\ UNCHANGED <<mpc, starts_with_tok, predecessor, successor, state, ready,
                 strbuf, spc, msg, listening, conn, inbox, logged, nput, nsent, ninit, sent, env, cfg, p1>>

\* program.c:219  pthread_cond_wait may return without a signal (POSIX)
ClientSpuriousWake(p) ==
  /\ Running(p) /\ cpc[p] = "wait"
  /\ cpc' = [cpc EXCEPT ![p] = "woken"]
  /\ UNCHANGED <<mpc, starts_with_tok, predecessor, successor, state, ready,
                 strbuf, mutex, spc, msg, listening, conn, inbox, logged, nput,
                 nsent, ninit, sent, env, cfg, p1>>

\* program.c:219  pthread_cond_wait returns holding the mutex again
ClientWake(p) ==
  /\ Running(p) /\ cpc[p] = "woken"
  /\ mutex[p] = "free"
  /\ mutex' = [mutex EXCEPT ![p] = "client"]
  /\ cpc' = [cpc EXCEPT ![p] = "test"]
  /\ UNCHANGED <<mpc, starts_with_tok, predecessor, successor, state, ready,
                 strbuf, spc, msg, listening, conn, inbox, logged, nput, nsent, ninit, sent, env, cfg, p1>>

\* the loop ends with ready set and the flag is left set
ClientResetKeepsReady(p) ==
  /\ Running(p) /\ cpc[p] = "test"
  /\ ready[p] # 0
  /\ mutex' = [mutex EXCEPT ![p] = "free"]
  /\ cpc' = [cpc EXCEPT ![p] = "send"]
  /\ UNCHANGED <<mpc, starts_with_tok, predecessor, successor, state, ready, strbuf,
                 spc, msg, listening, conn, inbox, logged, nput, nsent, ninit, sent, env, cfg, p1>>

\* program.c:218,221-222  the loop ends with ready set; ready = 0; unlock
ClientReset(p) ==
  /\ Running(p) /\ cpc[p] = "test"
  /\ ready[p] # 0
  /\ ready' = [ready EXCEPT ![p] = 0]
  /\ mutex' = [mutex EXCEPT ![p] = "free"]
  /\ cpc' = [cpc EXCEPT ![p] = "send"]
  /\ UNCHANGED <<mpc, starts_with_tok, predecessor, successor, state, strbuf,
                 spc, msg, listening, conn, inbox, logged, nput, nsent, ninit, sent, env, cfg, p1>>

\* program.c:225-229  fprintf and send of strbuf, after the mutex was released
ClientSend(p) ==
  /\ Running(p) /\ cpc[p] = "send"
  /\ Deliver(p, strbuf[p])
  /\ nsent' = [nsent EXCEPT ![p] = nsent[p] + 1]
  /\ sent' = [sent EXCEPT ![p] = Append(@, strbuf[p])]
  /\ cpc' = [cpc EXCEPT ![p] = "lock"]
  /\ UNCHANGED <<mpc, starts_with_tok, predecessor, successor, state, ready,
                 strbuf, mutex, spc, msg, listening, conn, logged, nput, ninit, env, cfg, p1>>

\* program.c:209-212, 226-229  send fails (the successor has exited): exit(1)
ClientSendFail(p) ==
  /\ Running(p) /\ cpc[p] \in {"send0", "send"}
  /\ mpc[successor[p]] = "exited"
  /\ ExitEffect(p)
  /\ UNCHANGED <<starts_with_tok, predecessor, successor, state, ready, strbuf,
                 mutex, spc, cpc, msg, inbox, logged, nput, nsent, ninit, sent, env, cfg, p1>>

\* ------------------------------------------------------------------ the closed ring
\* The ring once it is set up: every main has run, every server has accepted
\* its predecessor's connection and every client has connected and is about to
\* test state (program.c:201).  No token has been sent yet.
Init ==
  /\ mpc = [p \in Procs |-> "threads"]
  /\ starts_with_tok = [p \in Procs |-> p = Initiator]
  /\ predecessor = [p \in Procs |-> Predecessor(p, MAX_PROCESSES)]
  /\ successor = [p \in Procs |-> Successor(p, MAX_PROCESSES)]
  /\ state = [p \in Procs |-> InitialState(p = Initiator)]
  /\ ready = [p \in Procs |-> 0]
  /\ strbuf = [p \in Procs |-> <<Indet>>]
  /\ mutex = [p \in Procs |-> "free"]
  /\ spc = [p \in Procs |-> "recv"]
  /\ cpc = [p \in Procs |-> "check"]
  /\ msg = [p \in Procs |-> Garbage]
  /\ listening = [p \in Procs |-> TRUE]
  /\ conn = [p \in Procs |-> "open"]
  /\ inbox = [p \in Procs |-> <<>>]
  /\ logged = [p \in Procs |-> <<>>]
  /\ nput = [p \in Procs |-> 0]
  /\ nsent = [p \in Procs |-> 0]
  /\ ninit = [p \in Procs |-> 0]
  /\ sent = [p \in Procs |-> <<>>]
  /\ env = <<>>
  /\ cfg = NoMain
  /\ p1 = NoP1

Next ==
  \E p \in Procs :
    \/ ServerRecv(p)
    \/ ServerLock(p)
    \/ ServerPut(p)
    \/ ClientCheck(p)
    \/ ClientSendInitial(p)
    \/ ClientLock(p)
    \/ ClientWait(p)
    \/ ClientWake(p)
    \/ ClientReset(p)
    \/ ClientSend(p)

Spec == Init /\ [][Next]_vars

\* ------------------------------------------------------------------ the open harness
\* Process Pu alone, from main on.  Its inbound peer is whatever connects to its
\* listening port, and may write any bytes and close; the successor's host
\* decides when its listener is up, reads what it is sent, and may exit.
Peer == Successor(Pu, MAX_PROCESSES)

EnvPayloads ==
  { TokenMsg(Predecessor(Pu, MAX_PROCESSES), Predecessor(Pu, MAX_PROCESSES), Pu),
    <<Other>>,
    <<Other, Other>>,
    MarkerMsg(1, Predecessor(Pu, MAX_PROCESSES)) }

\* no thread has taken a step; Pu has not run main yet
Unstarted ==
  /\ mpc = [p \in Procs |-> IF p = Pu THEN "main" ELSE "threads"]
  /\ predecessor = [p \in Procs |-> IF p = Pu THEN 0 ELSE Predecessor(p, MAX_PROCESSES)]
  /\ successor = [p \in Procs |-> IF p = Pu THEN 0 ELSE Successor(p, MAX_PROCESSES)]
  /\ state = [p \in Procs |-> 0]
  /\ ready = [p \in Procs |-> 0]
  /\ strbuf = [p \in Procs |-> <<Indet>>]
  /\ mutex = [p \in Procs |-> "free"]
  /\ spc = [p \in Procs |-> "listen"]
  /\ cpc = [p \in Procs |-> "connect"]
  /\ msg = [p \in Procs |-> Garbage]
  /\ listening = [p \in Procs |-> FALSE]
  /\ conn = [p \in Procs |-> "none"]
  /\ inbox = [p \in Procs |-> <<>>]
  /\ logged = [p \in Procs |-> <<>>]
  /\ nput = [p \in Procs |-> 0]
  /\ nsent = [p \in Procs |-> 0]
  /\ ninit = [p \in Procs |-> 0]
  /\ sent = [p \in Procs |-> <<>>]
  /\ env = <<>>

InitOpen ==
  /\ Unstarted
  /\ \E x \in BOOLEAN : starts_with_tok = [p \in Procs |-> p = Pu /\ x]
  /\ cfg = NoMain
  /\ p1 = NoP1

\* the successor's listener comes up
EnvListen ==
  /\ mpc[Peer] = "threads" /\ ~listening[Peer]
  /\ listening' = [listening EXCEPT ![Peer] = TRUE]
  /\ UNCHANGED <<mpc, starts_with_tok, predecessor, successor, state, ready,
                 strbuf, mutex, spc, cpc, msg, conn, inbox, logged, nput, nsent,
                 ninit, sent, env, cfg, p1>>

\* some peer connects to the listening port of Pu
EnvConnect ==
  /\ listening[Pu] /\ conn[Pu] = "none"
  /\ conn' = [conn EXCEPT ![Pu] = "open"]
  /\ UNCHANGED <<mpc, starts_with_tok, predecessor, successor, state, ready,
                 strbuf, mutex, spc, cpc, msg, listening, inbox, logged, nput,
                 nsent, ninit, sent, env, cfg, p1>>

\* the inbound peer writes a payload
EnvWrite ==
  /\ conn[Pu] = "open" /\ mpc[Pu] # "exited"
  /\ Len(env) < MaxEnv
  /\ Len(inbox[Pu]) < MaxChan
  /\ \E d \in EnvPayloads :
       /\ inbox' = [inbox EXCEPT ![Pu] = Append(@, d)]
       /\ env' = Append(env, d)
  /\ UNCHANGED <<mpc, starts_with_tok, predecessor, successor, state, ready,
                 strbuf, mutex, spc, cpc, msg, listening, conn, logged, nput,
                 nsent, ninit, sent, cfg, p1>>

\* the inbound peer closes the connection
EnvClose ==
  /\ conn[Pu] = "open"
  /\ conn' = [conn EXCEPT ![Pu] = "closed"]
  /\ UNCHANGED <<mpc, starts_with_tok, predecessor, successor, state, ready,
                 strbuf, mutex, spc, cpc, msg, listening, inbox, logged, nput,
                 nsent, ninit, sent, env, cfg, p1>>

\* the successor reads what it was sent
EnvRead ==
  /\ inbox[Peer] # <<>>
  /\ inbox' = [inbox EXCEPT ![Peer] = Tail(@)]
  /\ UNCHANGED <<mpc, starts_with_tok, predecessor, successor, state, ready,
                 strbuf, mutex, spc, cpc, msg, listening, conn, logged, nput,
                 nsent, ninit, sent, env, cfg, p1>>

\* the successor's process ends
EnvPeerExit ==
  /\ mpc[Peer] = "threads"
  /\ mpc' = [mpc EXCEPT ![Peer] = "exited"]
  /\ listening' = [listening EXCEPT ![Peer] = FALSE]
  /\ UNCHANGED <<starts_with_tok, predecessor, successor, state, ready, strbuf,
                 mutex, spc, cpc, msg, conn, inbox, logged, nput, nsent, ninit, sent, env, cfg, p1>>

NextOpen ==
  \/ Main(Pu)
  \/ ServerListen(Pu)
  \/ ServerAccept(Pu)
  \/ ServerRecv(Pu)
  \/ ServerLock(Pu)
  \/ ServerPut(Pu)
  \/ ClientConnect(Pu)
  \/ ClientConnectFail(Pu)
  \/ ClientCheck(Pu)
  \/ ClientSendInitial(Pu)
  \/ ClientLock(Pu)
  \/ ClientWait(Pu)
  \/ ClientSpuriousWake(Pu)
  \/ ClientWake(Pu)
  \/ ClientReset(Pu)
  \/ ClientSend(Pu)
  \/ ClientSendFail(Pu)
  \/ EnvListen
  \/ EnvConnect
  \/ EnvWrite
  \/ EnvClose
  \/ EnvRead
  \/ EnvPeerExit

SpecOpen == InitOpen /\ [][NextOpen]_vars

\* ------------------------------------------------------------------ main reading the hostfile
\* program.c:354-426 for one process: hostsfile.txt is any sequence of at most
\* MaxLines lines, line i being empty, the i-th of distinct host names, or a
\* repetition of the first name; gethostname gives a listed name or another.
MaxLines == 6
HostName(i) == <<"h", i>>
Absent == <<"h", 0>>
Empty == <<>>

RECURSIVE FilesOfLen(_)
FilesOfLen(n) ==
  IF n = 0 THEN {<<>>}
  ELSE {Append(f, l) : f \in FilesOfLen(n - 1), l \in {Empty, HostName(n), HostName(1)}}

HostFiles == UNION {FilesOfLen(n) : n \in 0..MaxLines}

\* ProcessInfo process is a local of main that nothing initializes: proc_id
\* starts as whatever the stack holds, zero or not.
IndetInts == {0, 99}

InitMain ==
  /\ Unstarted
  /\ p1 = NoP1
  /\ starts_with_tok = [p \in Procs |-> FALSE]
  /\ \E f \in HostFiles, h \in {HostName(1), HostName(3), HostName(5), Absent},
        g \in IndetInts :
       cfg = [pc |-> "read", hostsfile |-> f, hostname |-> h, line_num |-> 0,
              num_processes |-> 0, proc_id |-> g, all_hostnames |-> <<>>,
              predecessor |-> 0, successor |-> 0]

\* program.c:365-372  fgets gives a line; an empty line is fatal
MainEmptyLine ==
  /\ cfg.pc = "read"
  /\ cfg.line_num < Len(cfg.hostsfile)
  /\ cfg.hostsfile[cfg.line_num + 1] = Empty
  /\ cfg' = [cfg EXCEPT !.pc = "exit"]
  /\ UNCHANGED <<ringvars, p1>>

\* program.c:365-384  fgets gives a line: strcpy into all_hostnames[line_num],
\* proc_id = line_num + 1 when it is the own hostname, both counters advance.
\* all_hostnames has MAX_PROCESSES rows: a later line is written out of bounds,
\* after which the run goes on or ends abnormally.
MainReadLine ==
  /\ cfg.pc = "read"
  /\ cfg.line_num < Len(cfg.hostsfile)
  /\ LET line == cfg.hostsfile[cfg.line_num + 1]
         read == [cfg EXCEPT
                    !.proc_id = IF line = cfg.hostname THEN cfg.line_num + 1 ELSE @,
                    !.line_num = @ + 1,
                    !.num_processes = @ + 1]
     IN /\ line # Empty
        /\ IF cfg.line_num < MAX_PROCESSES
           THEN cfg' = [read EXCEPT !.all_hostnames = Append(@, line)]
           ELSE cfg' = read \/ cfg' = [cfg EXCEPT !.pc = "crash"]
  /\ UNCHANGED <<ringvars, p1>>

\* program.c:365,387-391  fgets returns NULL; the number of lines is checked
MainCheckCount ==
  /\ cfg.pc = "read"
  /\ cfg.line_num = Len(cfg.hostsfile)
  /\ cfg' = [cfg EXCEPT !.pc = IF cfg.num_processes # MAX_PROCESSES
                                THEN "exit" ELSE "find"]
  /\ UNCHANGED <<ringvars, p1>>

\* program.c:394-397  if (process.proc_id == 0)
MainCheckProcId ==
  /\ cfg.pc = "find"
  /\ cfg' = [cfg EXCEPT !.pc = IF cfg.proc_id = 0 THEN "exit" ELSE "neighbors"]
  /\ UNCHANGED <<ringvars, p1>>

\* program.c:400-426  the neighbours are computed and both threads created
MainCreateThreads ==
  /\ cfg.pc = "neighbors"
  /\ cfg' = [cfg EXCEPT
               !.predecessor = Predecessor(cfg.proc_id, cfg.num_processes),
               !.successor = Successor(cfg.proc_id, cfg.num_processes),
               !.pc = "threads"]
  /\ UNCHANGED <<ringvars, p1>>

NextMain ==
  \/ MainEmptyLine
  \/ MainReadLine
  \/ MainCheckCount
  \/ MainCheckProcId
  \/ MainCreateThreads

SpecMain == InitMain /\ [][NextMain]_vars

\* ------------------------------------------------------------------ Project1-Docker: data_array.c
\* A data array is the sequence of its strings, data[0 .. size-1]; a string is
\* the sequence of its characters.

\* data_array.c:106-116
DataArrContains(arr, element) ==
  IF \E i \in 1..Len(arr) : arr[i] = element THEN 1 ELSE 0

\* data_array.c:88-103  equal sizes, and every element of arr1 is contained in arr2
DataArrEquals(arr1, arr2) ==
  IF Len(arr1) # Len(arr2) THEN 0
  ELSE IF \E i \in 1..Len(arr1) : DataArrContains(arr2, arr1[i]) = 0 THEN 0
  ELSE 1

\* data_array.c:46-57  a copy of the string is stored at the back
DataArrAdd(arr, element) == Append(arr, element)

\* data_array.c:60-74  the first element equal to element is freed and the
\* elements behind it move one place to the front
DataArrRemove(arr, element) ==
  IF \E i \in 1..Len(arr) : arr[i] = element
  THEN LET i == CHOOSE k \in 1..Len(arr) :
                  arr[k] = element /\ \A j \in 1..(k - 1) : arr[j] # element
       IN [j \in 1..(Len(arr) - 1) |-> IF j < i THEN arr[j] ELSE arr[j + 1]]
  ELSE arr

\* data_array.c:120-129  data_arr_init, then data_arr_add of every element
RECURSIVE CopyFrom(_, _, _)
CopyFrom(arr, i, copy) ==
  IF i > Len(arr) THEN copy ELSE CopyFrom(arr, i + 1, DataArrAdd(copy, arr[i]))

DataArrCopy(arr) == CopyFrom(arr, 1, <<>>)

\* ------------------------------------------------------------------ Project1-Docker: program1.c
MaxHosts == 3           \* lines of the hostfile
MaxDatagrams == 3       \* datagrams delivered to the server
BufLen == 3             \* length of the server's buf[MAX_CHAR], in characters

NUL == "NUL"
P1Chars == {"a", "b"}
P1Names == {<<"a">>, <<"b">>, <<"a", "b">>}

RECURSIVE P1FilesOfLen(_)
P1FilesOfLen(n) ==
  IF n = 0 THEN {<<>>}
  ELSE {Append(f, l) : f \in P1FilesOfLen(n - 1), l \in P1Names}

P1HostFiles == UNION {P1FilesOfLen(n) : n \in 0..MaxHosts}

\* what a datagram may carry: a host name, or nothing
P1Datagrams == P1Names \union {<<>>}

\* char buf[MAX_CHAR] is never initialized: it starts with whatever the stack holds
P1Bufs == [1..BufLen -> P1Chars \union {NUL}]

\* recvfrom(sock_fd, buf, MAX_CHAR, ...) stores the datagram's bytes, at most
\* MAX_CHAR of them, and no terminator; the bytes behind them stay
Recvfrom(buf, payload) ==
  [i \in 1..Len(buf) |-> IF i <= Len(payload) THEN payload[i] ELSE buf[i]]

\* buf read as a C string by strcmp, strlen and strcpy: the characters before
\* the first NUL (the whole array when it holds none)
CString(buf) ==
  LET ends == {i \in 1..Len(buf) : buf[i] = NUL}
  IN IF ends = {} THEN buf
     ELSE SubSeq(buf, 1, (CHOOSE i \in ends : \A j \in ends : i <= j) - 1)

InitP1 ==
  /\ Unstarted
  /\ starts_with_tok = [p \in Procs |-> FALSE]
  /\ cfg = NoMain
  /\ \E f \in P1HostFiles, h \in P1Names, b \in P1Bufs :
       p1 = [pc |-> "main", hostfile |-> f, hostname |-> h, arr |-> <<>>,
             prog_names |-> <<>>, received |-> <<>>, buf |-> b, got |-> <<>>]

\* program1.c:146-180  every line of the hostfile is added to arr; an empty
\* arr is fatal; the server thread is created
P1Main ==
  /\ p1.pc = "main"
  /\ p1' = [p1 EXCEPT !.arr = CopyFrom(p1.hostfile, 1, <<>>),
                      !.pc = IF p1.hostfile = <<>> THEN "exit" ELSE "server"]
  /\ UNCHANGED <<ringvars, cfg>>

\* program1.c:22-56  prog_names is a copy of arr without the own hostname;
\* received is empty; the socket is bound
P1ServerStart ==
  /\ p1.pc = "server"
  /\ p1' = [p1 EXCEPT !.prog_names = DataArrRemove(DataArrCopy(p1.arr), p1.hostname),
                      !.received = <<>>,
                      !.pc = "test"]
  /\ UNCHANGED <<ringvars, cfg>>

\* program1.c:59  while (data_arr_equals(prog_names, received) == 0)
P1ServerTest ==
  /\ p1.pc = "test"
  /\ p1' = [p1 EXCEPT !.pc = IF DataArrEquals(p1.prog_names, p1.received) = 0
                              THEN "recvfrom" ELSE "ready"]
  /\ UNCHANGED <<ringvars, cfg>>

\* program1.c:60-70  a datagram arrives; buf, read as a string, is added to
\* received unless received contains it
P1ServerRecvfrom ==
  /\ p1.pc = "recvfrom"
  /\ Len(p1.got) < MaxDatagrams
  /\ \E d \in P1Datagrams :
       LET newbuf == Recvfrom(p1.buf, d)
           str == CString(newbuf)
       IN p1' = [p1 EXCEPT
                   !.buf = newbuf,
                   !.got = Append(@, d),
                   !.received = IF DataArrContains(@, str) = 0
                                THEN DataArrAdd(@, str) ELSE @,
                   !.pc = "test"]
  /\ UNCHANGED <<ringvars, cfg>>

\* program1.c:74-87  READY is printed and the thread returns
P1ServerReady ==
  /\ p1.pc = "ready"
  /\ p1' = [p1 EXCEPT !.pc = "done"]
  /\ UNCHANGED <<ringvars, cfg>>

NextP1 ==
  \/ P1Main
  \/ P1ServerStart
  \/ P1ServerTest
  \/ P1ServerRecvfrom
  \/ P1ServerReady

SpecP1 == InitP1 /\ [][NextP1]_vars

\* ------------------------------------------------------------------ data_arr_equals on its own
MaxArr == 3             \* elements of an array
ArrStrings == {<<"a">>, <<"b">>}

RECURSIVE ArraysOfLen(_)
ArraysOfLen(n) ==
  IF n = 0 THEN {<<>>}
  ELSE {Append(a, e) : a \in ArraysOfLen(n - 1), e \in ArrStrings}

Arrays == UNION {ArraysOfLen(n) : n \in 0..MaxArr}

\* The heap of data_array.c: arrs[a] is the data[] of array a, the pointers to
\* its strings; strs[q] is the string at pointer q, live until it is freed.
EmptyHeap == [arrs |-> <<>>, strs |-> <<>>]

\* data_array.c:14-21  the new array is the last of arrs
data_arr_init(h) == [h EXCEPT !.arrs = Append(@, <<>>)]

\* data_array.c:46-57  malloc and strcpy of the string, stored at the back
data_arr_add(h, a, element) ==
  [arrs |-> [h.arrs EXCEPT ![a] = Append(@, Len(h.strs) + 1)],
   strs |-> Append(h.strs, [s |-> element, live |-> TRUE])]

\* the array a without its i-th place, the string there freed
RemoveAt(h, a, i) ==
  [arrs |-> [h.arrs EXCEPT ![a] =
               [j \in 1..(Len(@) - 1) |-> IF j < i THEN @[j] ELSE @[j + 1]]],
   strs |-> [h.strs EXCEPT ![h.arrs[a][i]].live = FALSE]]

\* the loop without its break: every element equal to element is removed
RECURSIVE remove_all_loop(_, _, _, _)
remove_all_loop(h, a, element, i) ==
  IF i > Len(h.arrs[a]) THEN h
  ELSE IF h.strs[h.arrs[a][i]].s = element
       THEN remove_all_loop(RemoveAt(h, a, i), a, element, i)
       ELSE remove_all_loop(h, a, element, i + 1)

data_arr_remove_all(h, a, element) == remove_all_loop(h, a, element, 1)

\* data_array.c:63-73  the for loop, from index i on
RECURSIVE remove_loop(_, _, _, _)
remove_loop(h, a, element, i) ==
  IF i > Len(h.arrs[a]) THEN h
  ELSE IF h.strs[h.arrs[a][i]].s = element
       THEN RemoveAt(h, a, i)
       ELSE remove_loop(h, a, element, i + 1)

\* data_array.c:60-74
data_arr_remove(h, a, element) == remove_loop(h, a, element, 1)

\* data_array.c:124-126  data_arr_add(copy, arr->data[i]) for every i
RECURSIVE copy_loop(_, _, _, _)
copy_loop(h, a, copy, i) ==
  IF i > Len(h.arrs[a]) THEN h
  ELSE copy_loop(data_arr_add(h, copy, h.strs[h.arrs[a][i]].s), a, copy, i + 1)

\* data_array.c:120-129  the copy is the last of arrs
data_arr_copy(h, a) ==
  LET h1 == data_arr_init(h) IN copy_loop(h1, a, Len(h1.arrs), 1)

\* program1.c:153-159  an array filled with the strings of lines, from line i on
RECURSIVE add_lines(_, _, _, _)
add_lines(h, a, lines, i) ==
  IF i > Len(lines) THEN h
  ELSE add_lines(data_arr_add(h, a, lines[i]), a, lines, i + 1)

\* what data_arr_get gives for each index of a: the string and whether it is live
Contents(h, a) == [i \in 1..Len(h.arrs[a]) |-> h.strs[h.arrs[a][i]]]

InitArr ==
  /\ Unstarted
  /\ starts_with_tok = [p \in Procs |-> FALSE]
  /\ cfg = NoMain
  /\ \E a \in Arrays, b \in Arrays, e \in ArrStrings :
       p1 = [pc |-> "arrays", arr1 |-> a, arr2 |-> b, element |-> e]

\* data_arr_equals(arr1, arr2) and data_arr_equals(arr2, arr1) are called
ApplyEquals ==
  /\ p1.pc = "arrays"
  /\ p1' = [pc |-> "equals", arr1 |-> p1.arr1, arr2 |-> p1.arr2,
            element |-> p1.element,
            r12 |-> DataArrEquals(p1.arr1, p1.arr2),
            r21 |-> DataArrEquals(p1.arr2, p1.arr1)]
  /\ UNCHANGED <<ringvars, cfg>>

\* program1.c:22-25  an array holding arr1 is copied by data_arr_copy and
\* data_arr_remove(copy, element) is called
ApplyRemove ==
  /\ p1.pc = "arrays"
  /\ LET h0 == add_lines(data_arr_init(EmptyHeap), 1, p1.arr1, 1)
         h1 == data_arr_copy(h0, 1)
         h2 == data_arr_remove(h1, 2, p1.element)
     IN p1' = [pc |-> "removed", arr1 |-> p1.arr1, arr2 |-> p1.arr2,
               element |-> p1.element,
               before |-> Contents(h1, 2),
               after |-> Contents(h2, 2),
               orig |-> Contents(h2, 1)]
  /\ UNCHANGED <<ringvars, cfg>>

NextArr ==
  \/ ApplyEquals
  \/ ApplyRemove

SpecArr == InitArr /\ [][NextArr]_vars

\* ------------------------------------------------------------------ the byte streams
\* payloads written so far on the inbound connection of p: by its predecessor's
\* client (program.c:209, 226) and, for the process of the open harness, by the
\* foreign peer
Written(p) ==
  (IF predecessor[p] \in Procs THEN sent[predecessor[p]] ELSE <<>>)
  \o (IF p = Pu THEN env ELSE <<>>)

\* the payloads of them that recv (program.c:103) has returned to p's server
Taken(p) == SubSeq(Written(p), 1, Len(Written(p)) - Len(inbox[p]))

\* connect() calls the client has made when a failed one ends the process:
\* the single call of program.c:195; the retry loop is commented out
AttemptsMade == 1

\* ------------------------------------------------------------------ properties
HasTag(data) == \E i \in 1..Len(data) : data[i].k = "tag"

\* tokens of process p's part of the ring: queued on its inbound connection,
\* held by its server between recv and the mailbox put, pending in its mailbox,
\* and held by its client (the seed before the initial send, or a message taken
\* from the mailbox and not yet sent)
TokensAt(p) ==
  Cardinality({i \in 1..Len(inbox[p]) : HasTag(inbox[p][i])})
  + (IF spc[p] \in {"lock", "put"} THEN 1 ELSE 0)
  + (IF ready[p] # 0 THEN 1 ELSE 0)
  + (IF cpc[p] \in {"send0", "send"} THEN 1 ELSE 0)

RECURSIVE TokensIn(_)
TokensIn(S) ==
  IF S = {} THEN 0
  ELSE LET x == CHOOSE y \in S : TRUE IN TokensAt(x) + TokensIn(S \ {x})

\* startup is over: every client has passed the test of state and its branch
Started == \A p \in Procs : Running(p) /\ cpc[p] \notin {"connect", "check", "send0"}

\* tokens received by p's server so far
Received(p) == state[p] - InitialState(starts_with_tok[p])

\* C1: after startup the ring holds exactly one token (on a channel, held by a
\* server thread, pending in a mailbox or held by a client thread): none is
\* duplicated and none is lost.
C1_TokenConservation == Started => TokensIn(Procs) = 1

\* C2: a process started without -x never executes the initial token send of
\* the client thread, and the initiator executes it at most once.
C2_OnlyInitiatorSeeds ==
  \A p \in Procs :
    /\ cpc[p] = "send0" => starts_with_tok[p]
    /\ ninit[p] <= InitialState(starts_with_tok[p])

\* C3: every token a server thread receives is sent on by the client loop
\* of the same process: at any moment each token received so far has either
\* been sent or is still held by the process on its way out (by the server
\* before the put, in the mailbox, or by the client before the send).
C3_EveryTokenForwarded ==
  \A p \in Procs :
    Received(p) = nsent[p]
                  + (IF spc[p] \in {"lock", "put"} THEN 1 ELSE 0)
                  + (IF ready[p] # 0 THEN 1 ELSE 0)
                  + (IF cpc[p] = "send" THEN 1 ELSE 0)

\* C4: the counters advance one per lap in ring order P2, P3, P4, P5, P1: no
\* process has received more tokens than its predecessor, the initiator's
\* successor being at most one lap ahead of the initiator.
C4_LapOrder ==
  \A p \in Procs :
    Received(p) <= Received(predecessor[p])
                   + (IF predecessor[p] = Initiator THEN 1 ELSE 0)

\* C5: with P1 the initiator, the counter values logged in the first lap are
\* P2=1, P3=1, P4=1, P5=1, P1=1 in that order, and then P2=2 (stated for the
\* runs in which only the initiator has seeded the ring).
C5_FirstLapLog ==
  C2_OnlyInitiatorSeeds =>
  /\ \A p \in Procs : logged[p] # <<>> => logged[p][1] = 1
  /\ \A p \in Procs \ {Successor(Initiator, MAX_PROCESSES)} :
       logged[p] # <<>> => logged[predecessor[p]] # <<>>
  /\ LET q == Successor(Initiator, MAX_PROCESSES)
     IN Len(logged[q]) >= 2 => logged[q][2] = 2 /\ logged[Initiator] # <<>>

\* C6: whenever the server thread writes strbuf and sets ready, ready was 0 and
\* every message put before has been sent by the client thread.
C6_MailboxNeverOverwritten ==
  [][\A p \in Procs :
       nput'[p] # nput[p] => ready[p] = 0 /\ nsent[p] = nput[p]]_vars

\* C7: every step of a thread that reads or writes state, strbuf or ready is
\* taken while that thread holds the mutex: the server's state++, its mailbox
\* put, the client's test of state, its test and reset of ready, its send of
\* strbuf.
C7_SharedAccessUnderMutex ==
  [][\A p \in Procs :
       /\ (Running(p) /\ state'[p] # state[p]) => mutex[p] = "server"
       /\ nput'[p] # nput[p] => mutex[p] = "server"
       /\ (cpc[p] = "check" /\ cpc'[p] # "check") => mutex[p] = "client"
       /\ (cpc[p] = "test" /\ cpc'[p] # "test") => mutex[p] = "client"
       /\ nsent'[p] # nsent[p] => mutex[p] = "client"]_vars

\* C8: a recv of data that holds no token message (other bytes, fewer bytes
\* than the recv before, or zero bytes) changes neither the counter nor the
\* mailbox and starts no forwarding to the successor.
C8_MalformedIgnored ==
  [][LET k == Len(inbox[Pu]) - Len(inbox'[Pu])
         data == Concat(SubSeq(inbox[Pu], 1, k))
     IN (ServerRecv(Pu) /\ ~HasTag(data))
        => /\ state'[Pu] = state[Pu]
           /\ spc'[Pu] = "recv"
           /\ ready'[Pu] = ready[Pu]
           /\ strbuf'[Pu] = strbuf[Pu]]_vars

\* the process reached by following successor n times from p
RECURSIVE Walk(_, _)
Walk(p, n) == IF n = 0 THEN p ELSE successor[Walk(p, n - 1)]

\* C9: the neighbours computed by main form one ring: successor and
\* predecessor are inverse, and following successor MAX_PROCESSES times from
\* any process returns to it after visiting every process once.
C9_RingInvariant ==
  /\ \A p \in Procs : predecessor[p] \in Procs /\ successor[p] \in Procs
  /\ \A p \in Procs :
       /\ successor[predecessor[p]] = p
       /\ predecessor[successor[p]] = p
       /\ Walk(p, MAX_PROCESSES) = p
       /\ {Walk(p, n) : n \in 0..(MAX_PROCESSES - 1)} = Procs

\* the token has been handed along successor links to every process
C9_Witness == \A p \in Procs : logged[p] # <<>>

\* a hostfile f and own hostname h that the membership rules reject
BadConfig(f, h) ==
  \/ \A i \in 1..Len(f) : f[i] # h
  \/ Len(f) # MAX_PROCESSES
  \/ \E i \in 1..Len(f) : f[i] = Empty
  \/ \E i, j \in 1..Len(f) : i < j /\ f[i] = f[j]

\* C10: main creates no thread when the own hostname is not in the hostfile,
\* when the file does not have exactly MAX_PROCESSES lines, when a line is
\* empty, or when a line is repeated.
C10_BadConfigFatal ==
  cfg.pc = "threads" => ~BadConfig(cfg.hostsfile, cfg.hostname)

\* C11: the client leaves the connect step by exiting only after it has made
\* MAX_RETRIES attempts: one failed attempt against a successor that is not
\* listening yet does not end the process.
C11_ConnectRetried ==
  [][ClientConnectFail(Pu) => AttemptsMade >= MAX_RETRIES]_vars

HasMarker(data) == \E i \in 1..Len(data) : data[i].k = "marker"

\* positions of the payloads of log that hold a token, a marker
TokenAt(log) == {i \in 1..Len(log) : HasTag(log[i])}
MarkerAt(log) == {i \in 1..Len(log) : HasMarker(log[i])}

\* position in Taken(Pu) of the first marker received, and the number of
\* tokens received before it
FirstMarker == CHOOSE i \in MarkerAt(Taken(Pu)) : \A j \in MarkerAt(Taken(Pu)) : i <= j
TokensBeforeMarker == Cardinality({j \in TokenAt(Taken(Pu)) : j < FirstMarker})

\* C13: a process that has received a marker sends that same marker to its
\* successor before it forwards any token received after the marker: the
\* tokens it has sent before the marker are at most its own seed and the
\* tokens received before the marker.
C13_MarkerForwardedFirst ==
  (/\ MarkerAt(Taken(Pu)) # {}
   /\ Cardinality(TokenAt(sent[Pu])) > ninit[Pu] + TokensBeforeMarker)
  => \E m \in MarkerAt(sent[Pu]) :
       /\ sent[Pu][m] = Taken(Pu)[FirstMarker]
       /\ Cardinality({j \in TokenAt(sent[Pu]) : j < m})
            <= ninit[Pu] + TokensBeforeMarker

\* the process has nothing left to do until more bytes arrive
Quiescent(p) ==
  /\ Running(p) /\ spc[p] = "recv" /\ inbox[p] = <<>> /\ conn[p] = "open"
  /\ cpc[p] = "wait" /\ ready[p] = 0 /\ mutex[p] = "free"

\* C14: a marker travels on round the ring: a process that has received a
\* marker and has come to rest has sent that marker to its successor.
C14_MarkerTravelsOn ==
  (Quiescent(Pu) /\ MarkerAt(Taken(Pu)) # {})
  => \E m \in MarkerAt(sent[Pu]) : sent[Pu][m] = Taken(Pu)[FirstMarker]

\* C15: a recv that returns only markers of a snapshot whose marker has
\* already been received on the connection changes neither the counter nor
\* the mailbox and starts no send.
C15_DuplicateMarkerIgnored ==
  [][LET k == Len(inbox[Pu]) - Len(inbox'[Pu])
         seen == {Taken(Pu)[i] : i \in MarkerAt(Taken(Pu))}
     IN (/\ ServerRecv(Pu)
         /\ k >= 1
         /\ \A i \in 1..k : inbox[Pu][i] \in seen)
        => /\ state'[Pu] = state[Pu]
           /\ spc'[Pu] = "recv"
           /\ ready'[Pu] = ready[Pu]
           /\ strbuf'[Pu] = strbuf[Pu]]_vars

\* the hostnames listed in the hostfile other than the own
P1Others == {p1.hostfile[i] : i \in 1..Len(p1.hostfile)} \ {p1.hostname}
P1Delivered == {p1.got[i] : i \in 1..Len(p1.got)}

\* C16: READY is printed only after a datagram with the hostname of every
\* other listed peer has been delivered to the server.
C16_ReadyOnlyAfterAll ==
  p1.pc \in {"ready", "done"} => P1Others \subseteq P1Delivered

\* the hostfile lists no host twice
P1NoRepeat ==
  \A i, j \in 1..Len(p1.hostfile) : p1.hostfile[i] = p1.hostfile[j] => i = j

\* C17: once the datagrams delivered include the hostname of every other
\* peer, the loop test lets the server leave the receive loop: it does not go
\* back to wait in recvfrom (stated for hostfiles that list no host twice).
C17_ReadyOnceAllReceived ==
  (p1.pc = "recvfrom" /\ P1NoRepeat) => ~(P1Others \subseteq P1Delivered)

\* number of elements of arr equal to e
Count(arr, e) == Cardinality({i \in 1..Len(arr) : arr[i] = e})
IsPermutation(a, b) ==
  /\ Len(a) = Len(b)
  /\ \A e \in ArrStrings : Count(a, e) = Count(b, e)

\* C18: data_arr_equals returns 1 exactly when the two arrays are
\* permutations of each other, duplicates included, and 0 otherwise; its
\* result does not depend on the order of its arguments.
C18_EqualsIsPermutation ==
  p1.pc = "equals" =>
    /\ p1.r12 \in {0, 1}
    /\ (p1.r12 = 1) <=> IsPermutation(p1.arr1, p1.arr2)
    /\ p1.r12 = p1.r21

\* C19: the counter of a process has advanced by the number of token
\* messages of its predecessor that recv has returned to its server.
C19_CounterCountsTokens ==
  \A p \in Procs :
    Running(p) => Received(p) = Cardinality(TokenAt(Taken(p)))

\* C20: the server signals the condition variable exactly when the mailbox
\* goes from empty to non-empty: a put with its signal is made holding the
\* mutex with ready 0 before and 1 after, and ready goes from 0 to 1 in no
\* other step.
C20_SignalOnEmptyToNonEmpty ==
  [][\A p \in Procs :
       /\ nput'[p] # nput[p]
            => (ready[p] = 0 /\ ready'[p] = 1 /\ mutex[p] = "server")
       /\ (ready[p] = 0 /\ ready'[p] = 1)
            => (nput'[p] = nput[p] + 1 /\ mutex[p] = "server")]_vars

\* C21: the client's send loop sends each mailbox message at most once: the
\* messages it has sent, and the one it has taken and is about to send, are
\* never more than the puts the server has made.
C21_SentAtMostOncePerPut ==
  \A p \in Procs :
    nsent[p] + (IF cpc[p] = "send" THEN 1 ELSE 0) <= nput[p]

\* the send loop has sent every message put so far, and at least one
C21_Witness == \E p \in Procs : nsent[p] >= 1 /\ nsent[p] = nput[p]

\* the strings of a sequence of live heap strings
Live(c) == \A i \in 1..Len(c) : c[i].live
Strings(c) == [i \in 1..Len(c) |-> c[i].s]

\* C22: data_arr_remove on a copy removes only the first element equal to
\* the given string, the size going down by 1 and the others keeping their
\* order; with no equal element the copy is unchanged; and the array the
\* copy was made of keeps its elements.
C22_RemoveFirstOnly ==
  p1.pc = "removed" =>
    LET a == p1.arr1
        hits == {i \in 1..Len(a) : a[i] = p1.element}
    IN /\ Strings(p1.before) = a /\ Live(p1.before)
       /\ Live(p1.after)
       /\ hits = {} => p1.after = p1.before
       /\ hits # {} =>
            LET i == CHOOSE k \in hits : \A j \in hits : k <= j
            IN /\ Len(p1.after) = Len(a) - 1
               /\ Strings(p1.after) = SubSeq(a, 1, i - 1) \o SubSeq(a, i + 1, Len(a))
       /\ Strings(p1.orig) = a /\ Live(p1.orig)

\* the string removed occurs more than once in the array
C22_Witness ==
  /\ p1.pc = "removed"
  /\ Cardinality({i \in 1..Len(p1.arr1) : p1.arr1[i] = p1.element}) >= 2

====
